---- MODULE Spec2Model ----
(***************************************************************************)
(* A model of test_scripts/run_linters.py: file discovery under the source *)
(* root, the two checker phases (clang-tidy, then clang-format), each run  *)
(* on a ThreadPool, and the final report and exit code.                    *)
(***************************************************************************)
EXTENDS Integers, Sequences, FiniteSets

(***************************************************************************)
(* The file system under _SRC_DIR.  A path is the sequence of names from   *)
(* the root; a tree is a set of file paths, its directories are the        *)
(* proper prefixes of its files.                                           *)
(***************************************************************************)
Names == <<"a.cpp", "c.cpp", "gen.cpp", "h.hpp", "lib", "third_party">>

CppNames == {"a.cpp", "c.cpp", "gen.cpp"}

HppNames == {"h.hpp"}

\* fnmatch of a name against the pattern "*" + file_ext
EndsWith(name, file_ext) ==
    \/ file_ext = ".cpp" /\ name \in CppNames
    \/ file_ext = ".hpp" /\ name \in HppNames

\* Every file the trees of the discovery runs are built from.  "gen.cpp" is
\* a directory whose name ends in .cpp.
CandidatePaths ==
    { <<"a.cpp">>, <<"h.hpp">>,
      <<"third_party", "c.cpp">>,
      <<"lib", "c.cpp">>,
      <<"lib", "h.hpp">>,
      <<"lib", "third_party", "a.cpp">>,
      <<"gen.cpp", "a.cpp">> }

\* os.scandir yields a directory's entries in an order the file system picks.
ScanOrders ==
    { Names, [i \in 1..Len(Names) |-> Names[Len(Names) + 1 - i]] }

_SRC_DIR == << >>

_EXCLUDE_DIRS == {"third_party"}

Last(p) == p[Len(p)]

Dirs(t) == UNION { { SubSeq(p, 1, k) : k \in 1..(Len(p) - 1) } : p \in t }

is_dir(t, p) == p \in Dirs(t)

Entries(t) == t \cup Dirs(t)

\* The entries of directory d, in scan order.
Scandir(t, d, order) ==
    SelectSeq([i \in 1..Len(order) |-> Append(d, order[i])],
              LAMBDA p : p \in Entries(t))

\* d.glob("*" + file_ext): the entries of d whose name matches; a directory
\* whose name matches is returned like a file.
Glob(t, d, file_ext, order) ==
    SelectSeq(Scandir(t, d, order), LAMBDA p : EndsWith(Last(p), file_ext))

SubDirs(t, d, order) == SelectSeq(Scandir(t, d, order), LAMBDA p : is_dir(t, p))

\* d.glob("**/*" + file_ext): d and every directory below it in pre-order,
\* the matching entries of each.
RECURSIVE RGlob(_, _, _, _)
RECURSIVE RGlobAll(_, _, _, _)
RGlob(t, d, file_ext, order) ==
    Glob(t, d, file_ext, order) \o RGlobAll(t, SubDirs(t, d, order), file_ext, order)

RGlobAll(t, ds, file_ext, order) ==
    IF ds = << >> THEN << >>
    ELSE RGlob(t, Head(ds), file_ext, order) \o RGlobAll(t, Tail(ds), file_ext, order)

\* Mutant: the excluded names are not filtered out.
NonExcludedDirs_NoFilter(t, order) ==
    SelectSeq(Scandir(t, _SRC_DIR, order), LAMBDA d : is_dir(t, d))

\* The sub-folders collect_sources descends into.
NonExcludedDirs(t, order) ==
    SelectSeq(Scandir(t, _SRC_DIR, order),
              LAMBDA d : is_dir(t, d) /\ Last(d) \notin _EXCLUDE_DIRS)

collect_sources(t, file_ext, order) ==
    Glob(t, _SRC_DIR, file_ext, order)
        \o RGlobAll(t, NonExcludedDirs(t, order), file_ext, order)

(***************************************************************************)
(* File contents are byte strings.  "CR" and "LF" are the two line-ending  *)
(* bytes, "0xFF" a byte that is not valid UTF-8.                           *)
(***************************************************************************)
Clean == <<"x", "LF">>

Crlf == <<"x", "CR", "LF">>

Ugly == <<"y", "LF">>

Long == <<"x", "LF", "y">>

Bad == <<"0xFF">>

\* The contents a file of the run may start with.
InitialContents(p) ==
    CASE p = <<"a.cpp">> -> {Crlf}
      [] p = <<"h.hpp">> -> {Long, Bad}
      [] OTHER -> {Ugly}

\* Text-mode decoding with newline=None: "\r\n" and "\r" become "\n".
RECURSIVE Translate(_)
Translate(b) ==
    IF b = << >> THEN << >>
    ELSE IF Head(b) = "CR"
         THEN IF Len(b) >= 2 /\ b[2] = "LF"
              THEN <<"LF">> \o Translate(SubSeq(b, 3, Len(b)))
              ELSE <<"LF">> \o Translate(Tail(b))
         ELSE <<Head(b)>> \o Translate(Tail(b))

\* f.readlines(): the lines of the text, each with its "\n", the last one
\* possibly without.
RECURSIVE ReadLines(_, _)
ReadLines(text, cur) ==
    IF text = << >> THEN (IF cur = << >> THEN << >> ELSE <<cur>>)
    ELSE IF Head(text) = "LF"
         THEN <<Append(cur, "LF")>> \o ReadLines(Tail(text), << >>)
         ELSE ReadLines(Tail(text), Append(cur, Head(text)))

Decodable(b) == \A i \in 1..Len(b) : b[i] # "0xFF"

\* read_file raises (UnicodeDecodeError) on bytes that are not UTF-8.
read_file(b) ==
    IF Decodable(b)
    THEN [raised |-> FALSE, lines |-> ReadLines(Translate(b), << >>)]
    ELSE [raised |-> TRUE, lines |-> << >>]

\* Mutant: only the line counts are compared.
files_equal_LenOnly(a, b) == Len(a) = Len(b)

files_equal(a, b) ==
    IF Len(a) # Len(b) THEN FALSE
    ELSE \A i \in 1..Len(a) : a[i] = b[i]

RECURSIVE Flatten(_)
Flatten(lines) ==
    IF lines = << >> THEN << >> ELSE Head(lines) \o Flatten(Tail(lines))

\* "".join(difflib.context_diff(before, after, ..., n=0)): nothing for equal
\* inputs, else the two file headers and the lines of each side.
context_diff(before, after) ==
    IF before = after THEN << >>
    ELSE <<"*** file", "--- file", "***************", "*** before">>
            \o Flatten(before) \o <<"--- after">> \o Flatten(after)

Warning == "warning: code was clang-formatted:"

\* The argument list of clang_tidy, without the file.
clang_tidy_args(fix_, build_path) ==
    <<"clang-tidy", "-p", build_path>> \o (IF fix_ THEN <<"--fix">> ELSE << >>)

\* Mutant: the in-place flag is passed whatever the mode.
clang_format_args_InPlace(fix_) == <<"clang-format", "-Werror", "-i">>

\* The argument list of clang_format, without the file.
clang_format_args(fix_) ==
    <<"clang-format", "-Werror">> \o (IF fix_ THEN <<"-i">> ELSE <<"--dry-run">>)

Has(args, flag) == \E i \in 1..Len(args) : args[i] = flag

\* Mutant: a rewritten file is not reported.
clang_format_result_NoDiff(before, after, stderr) == stderr

\* The text clang_format returns, from the lines read before and after the
\* checker ran and the checker's stderr.
clang_format_result(before, after, stderr) ==
    IF ~files_equal(after, before)
    THEN (IF stderr # << >> THEN Append(stderr, "\n") ELSE stderr)
            \o <<Warning>> \o context_diff(before, after)
    ELSE stderr

(***************************************************************************)
(* The external checkers.  clang-tidy rewrites the file only with --fix,   *)
(* clang-format only with -i (never with --dry-run); what either prints    *)
(* and what it rewrites the file to is its own business.                   *)
(***************************************************************************)
TidyStdout == { << >>, <<"tidy: warning">> }

FormatStderr == { << >>, <<"format: error">> }

TidyWrites(args, c) == IF Has(args, "--fix") THEN {c, Clean} ELSE {c}

FormatWrites(args, c) ==
    IF Has(args, "-i") /\ ~Has(args, "--dry-run") THEN {c, Clean} ELSE {c}

\* ThreadPool(): os.cpu_count() worker threads.
Processes == 2

BuildPath == "build"

VARIABLES tree, scanOrder, ext, found

VARIABLES fix, missing, content, content0, pc, sources, tasks, finished,
          errors, out, exitCode

rvars == <<fix, missing, content, content0, pc, sources, tasks, finished,
           errors, out, exitCode>>

vars == <<tree, scanOrder, ext, found, fix, missing, content, content0, pc,
          sources, tasks, finished, errors, out, exitCode>>

\* The trees of the runs: the vendored file and any of the project's files.
RunTrees ==
    { {<<"third_party", "c.cpp">>} \cup s :
        s \in SUBSET {<<"a.cpp">>, <<"h.hpp">>, <<"lib", "c.cpp">>} }

NoTask == [checker |-> "", src |-> << >>, st |-> "", args |-> << >>,
           had |-> << >>, before |-> << >>, wrote |-> << >>, stream |-> << >>,
           result |-> << >>, raised |-> FALSE]

\* The root's files come first in collect_sources and each sub-folder of a
\* run's tree holds one file, so the scan order changes nothing in a run.
Init ==
    /\ tree \in RunTrees
    /\ scanOrder = Names
    /\ ext = ""
    /\ found = << >>
    /\ fix \in BOOLEAN
    /\ missing \in {"none", "clang-tidy", "clang-format"}
    /\ content0 \in { f \in [tree -> {Clean, Crlf, Ugly, Long, Bad}] :
                        \A p \in tree : f[p] \in InitialContents(p) }
    /\ content = content0
    /\ pc = "run_clang_tidy"
    /\ sources = << >>
    /\ tasks = << >>
    /\ finished = << >>
    /\ errors = << >>
    /\ out = << >>
    /\ exitCode = -1

InitDiscover ==
    /\ tree \in SUBSET CandidatePaths
    /\ scanOrder \in ScanOrders
    /\ ext = ""
    /\ found = << >>
    /\ fix = FALSE
    /\ missing = "none"
    /\ content0 = [p \in tree |-> Clean]
    /\ content = content0
    /\ pc = "collect_sources"
    /\ sources = << >>
    /\ tasks = << >>
    /\ finished = << >>
    /\ errors = << >>
    /\ out = << >>
    /\ exitCode = -1

Discover(e) ==
    /\ pc = "collect_sources"
    /\ ext = ""
    /\ ext' = e
    /\ found' = collect_sources(tree, e, scanOrder)
    /\ UNCHANGED <<tree, scanOrder>>
    /\ UNCHANGED rvars

NextDiscover == \E e \in {".cpp", ".hpp"} : Discover(e)

SpecDiscover == InitDiscover /\ [][NextDiscover]_vars

(***************************************************************************)
(* The run: main() -> run_linters() -> run_clang_tidy(), run_clang_format() *)
(***************************************************************************)
Pool(checker) == { i \in 1..Len(tasks) : tasks[i].checker = checker }

InProgress == { i \in 1..Len(tasks) : tasks[i].st \in {"taken", "running"} }

\* Mutant: the pool is not joined.
AllDone_NoJoin(checker) == TRUE

AllDone(checker) == \A i \in Pool(checker) : tasks[i].st = "done"

Raised(checker) == \E i \in Pool(checker) : tasks[i].raised

\* Mutant: the results are collected in the order the tasks finished.
Get_ByCompletion(checker) ==
    LET done == SelectSeq(finished, LAMBDA i : /\ tasks[i].checker = checker
                                               /\ tasks[i].result # << >>)
    IN  [k \in 1..Len(done) |-> tasks[done[k]].result]

\* [r.get() for r in results if r.get()]
Get(checker) ==
    LET mine == SelectSeq(tasks, LAMBDA t : t.checker = checker /\ t.result # << >>)
    IN  [i \in 1..Len(mine) |-> mine[i].result]

\* The sources of run_clang_tidy (line 85).
run_clang_tidy_sources(t, order) == collect_sources(t, ".cpp", order)

\* Mutant: the headers are left out.
run_clang_format_sources_NoHpp(t, order) == collect_sources(t, ".cpp", order)

\* The sources of run_clang_format (lines 110-111).
run_clang_format_sources(t, order) ==
    collect_sources(t, ".cpp", order) \o collect_sources(t, ".hpp", order)

\* run_clang_tidy, line 85: the sources of the first phase.
RunClangTidy ==
    /\ pc = "run_clang_tidy"
    /\ sources' = run_clang_tidy_sources(tree, scanOrder)
    /\ pc' = "tidy_pool"
    /\ UNCHANGED <<tree, scanOrder, ext, found, fix, missing, content, content0,
                   tasks, finished, errors, out, exitCode>>

PoolOf(p) == IF p = "tidy_pool" THEN "clang-tidy" ELSE "clang-format"

\* pool.apply_async(...) on the next source.
Submit ==
    /\ pc \in {"tidy_pool", "format_pool"}
    /\ sources # << >>
    /\ tasks' = Append(tasks, [NoTask EXCEPT !.checker = PoolOf(pc),
                                             !.src = Head(sources),
                                             !.st = "queued"])
    /\ sources' = Tail(sources)
    /\ UNCHANGED <<tree, scanOrder, ext, found, fix, missing, content, content0,
                   pc, finished, errors, out, exitCode>>

\* Mutant: a task starts whether or not a worker is free.
CanTake_Unbounded(i) ==
    /\ tasks[i].st = "queued"
    /\ \A j \in 1..(i - 1) : tasks[j].st # "queued"

\* A free worker thread takes the oldest queued task.
CanTake(i) ==
    /\ tasks[i].st = "queued"
    /\ \A j \in 1..(i - 1) : tasks[j].st # "queued"
    /\ Cardinality(InProgress) < Processes

Take(i) ==
    /\ CanTake(i)
    /\ tasks' = [tasks EXCEPT ![i].st = "taken"]
    /\ UNCHANGED <<tree, scanOrder, ext, found, fix, missing, content, content0,
                   pc, sources, finished, errors, out, exitCode>>

\* clang_tidy up to the launch of the checker (lines 31-37).
ClangTidyStart(i) ==
    /\ tasks[i].st = "taken"
    /\ tasks[i].checker = "clang-tidy"
    /\ out' = Append(out, <<"clang-tidy:">> \o tasks[i].src)
    /\ IF missing = "clang-tidy"
       THEN /\ tasks' = [tasks EXCEPT ![i].st = "done", ![i].raised = TRUE]
            /\ finished' = Append(finished, i)
       ELSE /\ tasks' = [tasks EXCEPT ![i].st = "running",
                                      ![i].args = clang_tidy_args(fix, BuildPath),
                                      ![i].had = content[tasks[i].src]]
            /\ UNCHANGED finished
    /\ UNCHANGED <<tree, scanOrder, ext, found, fix, missing, content, content0,
                   pc, sources, errors, exitCode>>

\* The checker ends; clang_tidy returns its stdout (lines 37-40).
ClangTidyFinish(i) ==
    /\ tasks[i].st = "running"
    /\ tasks[i].checker = "clang-tidy"
    /\ \E stdout \in TidyStdout, c \in TidyWrites(tasks[i].args, content[tasks[i].src]) :
          /\ content' = [content EXCEPT ![tasks[i].src] = c]
          /\ tasks' = [tasks EXCEPT ![i].st = "done",
                                    ![i].wrote = c,
                                    ![i].stream = stdout,
                                    ![i].result = stdout]
    /\ finished' = Append(finished, i)
    /\ UNCHANGED <<tree, scanOrder, ext, found, fix, missing, content0,
                   pc, sources, errors, out, exitCode>>

\* clang_format up to the launch of the checker (lines 58-67).
ClangFormatStart(i) ==
    /\ tasks[i].st = "taken"
    /\ tasks[i].checker = "clang-format"
    /\ out' = Append(out, <<"clang-format:">> \o tasks[i].src)
    /\ LET before == read_file(content[tasks[i].src])
       IN  IF before.raised \/ missing = "clang-format"
           THEN /\ tasks' = [tasks EXCEPT ![i].st = "done", ![i].raised = TRUE]
                /\ finished' = Append(finished, i)
           ELSE /\ tasks' = [tasks EXCEPT ![i].st = "running",
                                          ![i].args = clang_format_args(fix),
                                          ![i].had = content[tasks[i].src],
                                          ![i].before = before.lines]
                /\ UNCHANGED finished
    /\ UNCHANGED <<tree, scanOrder, ext, found, fix, missing, content, content0,
                   pc, sources, errors, exitCode>>

\* The checker ends; clang_format reads the file again and builds its
\* result (lines 67-81).
ClangFormatFinish(i) ==
    /\ tasks[i].st = "running"
    /\ tasks[i].checker = "clang-format"
    /\ \E stderr \in FormatStderr, c \in FormatWrites(tasks[i].args, content[tasks[i].src]) :
          /\ content' = [content EXCEPT ![tasks[i].src] = c]
          /\ tasks' = [tasks EXCEPT
                ![i].st = "done",
                ![i].wrote = c,
                ![i].stream = stderr,
                ![i].result = clang_format_result(tasks[i].before,
                                                  read_file(c).lines, stderr)]
    /\ finished' = Append(finished, i)
    /\ UNCHANGED <<tree, scanOrder, ext, found, fix, missing, content0,
                   pc, sources, errors, out, exitCode>>

\* An exception a task raised comes out of r.get(), then out of main(): the
\* interpreter prints the traceback and exits with status 1.
Crash ==
    /\ pc' = "crashed"
    /\ exitCode' = 1
    /\ UNCHANGED <<errors, sources, finished>>

\* run_clang_tidy from pool.close() on, errors.extend(...) in run_linters,
\* and the sources of run_clang_format (lines 103-111, 136).
TidyJoin ==
    /\ pc = "tidy_pool"
    /\ sources = << >>
    /\ AllDone("clang-tidy")
    /\ IF Raised("clang-tidy")
       THEN Crash
       ELSE /\ errors' = errors \o Get("clang-tidy")
            /\ sources' = run_clang_format_sources(tree, scanOrder)
            /\ finished' = << >>
            /\ pc' = "format_pool"
            /\ UNCHANGED exitCode
    /\ UNCHANGED <<tree, scanOrder, ext, found, fix, missing, content, content0,
                   tasks, out>>

\* run_clang_format from pool.close() on and errors.extend(...) (lines
\* 128-131, 137).
FormatJoin ==
    /\ pc = "format_pool"
    /\ sources = << >>
    /\ AllDone("clang-format")
    /\ IF Raised("clang-format")
       THEN Crash
       ELSE /\ errors' = errors \o Get("clang-format")
            /\ pc' = "report"
            /\ UNCHANGED <<sources, finished, exitCode>>
    /\ UNCHANGED <<tree, scanOrder, ext, found, fix, missing, content, content0,
                   tasks, out>>

ErrorBanner == <<"***ERROR: Some checks failed">>

OkBanner == <<"All checks passed!">>

\* Mutant: the exit code ignores what run_linters returns.
main_return_Always0(all_ok) == 0

\* main's exit code from what run_linters returns (lines 157-159).
main_return(all_ok) == IF ~all_ok THEN 1 ELSE 0

\* The rest of run_linters and main's exit code (lines 139-159).
Report ==
    /\ pc = "report"
    /\ LET all_ok == (errors = << >>)
       IN  /\ out' = out \o (IF all_ok THEN <<OkBanner>> ELSE <<ErrorBanner>> \o errors)
           /\ exitCode' = main_return(all_ok)
    /\ pc' = "done"
    /\ UNCHANGED <<tree, scanOrder, ext, found, fix, missing, content, content0,
                   sources, tasks, finished, errors>>

Next ==
    \/ RunClangTidy
    \/ Submit
    \/ \E i \in 1..Len(tasks) : Take(i)
    \/ \E i \in 1..Len(tasks) : ClangTidyStart(i)
    \/ \E i \in 1..Len(tasks) : ClangTidyFinish(i)
    \/ \E i \in 1..Len(tasks) : ClangFormatStart(i)
    \/ \E i \in 1..Len(tasks) : ClangFormatFinish(i)
    \/ TidyJoin
    \/ FormatJoin
    \/ Report

Spec == Init /\ [][Next]_vars

(***************************************************************************)
(* Properties                                                              *)
(***************************************************************************)
ProgressTag(checker) ==
    IF checker = "clang-tidy" THEN "clang-tidy:" ELSE "clang-format:"

Count(seq, x) == Cardinality({ i \in 1..Len(seq) : seq[i] = x })

Elems(seq) == { seq[i] : i \in 1..Len(seq) }

Printed(line) == \E k \in 1..Len(out) : out[k] = line

BannerPrinted == Printed(OkBanner) \/ Printed(ErrorBanner)

TasksOf(checker, src) ==
    { i \in 1..Len(tasks) : tasks[i].checker = checker /\ tasks[i].src = src }

\* The result of the one invocation of a checker on a file.
ResultOf(checker, src) ==
    tasks[CHOOSE i \in TasksOf(checker, src) : TRUE].result

RECURSIVE NonEmptyResults(_, _)
NonEmptyResults(checker, srcs) ==
    IF srcs = << >> THEN << >>
    ELSE (IF ResultOf(checker, Head(srcs)) # << >>
          THEN <<ResultOf(checker, Head(srcs))>> ELSE << >>)
            \o NonEmptyResults(checker, Tail(srcs))

\* C1: a run that completes exits with 0 exactly when every clang_tidy and
\* every clang_format invocation returned empty text, and with 1 otherwise;
\* the success banner is printed exactly in the exit-0 case.
C1_ExitCode ==
    /\ pc = "done" =>
          exitCode = (IF \A i \in 1..Len(tasks) : tasks[i].result = << >>
                      THEN 0 ELSE 1)
    /\ Printed(OkBanner) <=> (pc = "done" /\ exitCode = 0)

C1_Witness ==
    /\ pc = "done"
    /\ exitCode = 0
    /\ Pool("clang-tidy") # {}
    /\ Cardinality(Pool("clang-format")) >= 2

\* C2: in a completed run with a non-empty diagnostic, the output is the
\* per-file progress lines, then the error banner, then every non-empty
\* diagnostic once: clang-tidy's in the order the .cpp files were submitted,
\* then clang-format's in the order its files were submitted, whatever the
\* order the invocations finished in.
C2_ReportOrder ==
    (pc = "done" /\ \E i \in 1..Len(tasks) : tasks[i].result # << >>) =>
        LET n == Len(tasks)
            diags == NonEmptyResults("clang-tidy",
                                     run_clang_tidy_sources(tree, scanOrder))
                       \o NonEmptyResults("clang-format",
                                     run_clang_format_sources(tree, scanOrder))
        IN  /\ Len(out) = n + 1 + Len(diags)
            /\ \A k \in 1..n : Head(out[k]) \in {"clang-tidy:", "clang-format:"}
            /\ out[n + 1] = ErrorBanner
            /\ SubSeq(out, n + 2, Len(out)) = diags

\* Two clang-format diagnostics are reported and the later-submitted
\* invocation finished first.
C2_Witness ==
    /\ pc = "done"
    /\ \E a, b \in 1..Len(finished) :
          /\ a < b
          /\ finished[a] > finished[b]
          /\ tasks[finished[a]].result # << >>
          /\ tasks[finished[b]].result # << >>
    /\ \E i \in Pool("clang-tidy") : tasks[i].result # << >>

\* C3 as stated: collect_sources returns every file with the extension that
\* lies directly under the root or at any depth under a non-excluded
\* immediate subdirectory, each exactly once, and no file located under a
\* subdirectory (at any depth) whose name is in the excluded set.
C3_Original ==
    ext # "" =>
        /\ \A p \in tree :
              (EndsWith(Last(p), ext) /\ (Len(p) = 1 \/ p[1] \notin _EXCLUDE_DIRS))
                  => Count(found, p) = 1
        /\ \A p \in Elems(found) \cap tree :
              \A k \in 1..(Len(p) - 1) : p[k] \notin _EXCLUDE_DIRS

\* C3, amended: the exclusion is of the root's immediate subdirectories
\* only; collect_sources returns no file under an immediate subdirectory
\* with an excluded name, and does return the files under a directory of
\* that name nested deeper in a non-excluded subdirectory.
C3_CollectSources ==
    ext # "" =>
        /\ \A p \in tree :
              (EndsWith(Last(p), ext) /\ (Len(p) = 1 \/ p[1] \notin _EXCLUDE_DIRS))
                  => Count(found, p) = 1
        /\ \A p \in Elems(found) \cap tree :
              /\ Len(p) > 1 => p[1] \notin _EXCLUDE_DIRS
              /\ EndsWith(Last(p), ext)
              /\ Count(found, p) = 1

C3_Witness ==
    /\ ext = ".cpp"
    /\ {<<"a.cpp">>, <<"third_party", "c.cpp">>, <<"lib", "c.cpp">>,
        <<"lib", "third_party", "a.cpp">>} \subseteq tree
    /\ Len(found) >= 3

\* C4: with fix-mode off every file keeps the content it had before the
\* run, at every point of the run; clang-format is only run with --dry-run
\* and never with -i, clang-tidy never with --fix.
C4_NoFixNoChange ==
    ~fix =>
        /\ content = content0
        /\ \A i \in 1..Len(tasks) :
              /\ ~Has(tasks[i].args, "-i")
              /\ ~Has(tasks[i].args, "--fix")
              /\ (tasks[i].checker = "clang-format" /\ tasks[i].args # << >>)
                    => Has(tasks[i].args, "--dry-run")

C4_Witness ==
    /\ ~fix
    /\ pc = "done"
    /\ \E i \in Pool("clang-format") : tasks[i].stream # << >>
    /\ \E i \in Pool("clang-tidy") : tasks[i].st = "done"

RewrittenBy(i) ==
    /\ tasks[i].checker = "clang-format"
    /\ tasks[i].st = "done"
    /\ ~tasks[i].raised
    /\ read_file(tasks[i].wrote).lines # tasks[i].before

Quiet == \A i \in 1..Len(tasks) : tasks[i].stream = << >>

\* C5 as stated: with fix-mode on, when the in-place fix resolves a file's
\* style violation and no checker emits output, the file holds the
\* corrected content, the diagnostic set is empty and the exit code is 0.
C5_Original ==
    (pc = "done" /\ fix /\ Quiet /\ \E i \in 1..Len(tasks) : RewrittenBy(i)) =>
        /\ \A i \in 1..Len(tasks) :
              RewrittenBy(i) => content[tasks[i].src] = tasks[i].wrote
        /\ errors = << >>
        /\ exitCode = 0

\* C5, amended: with fix-mode on, a file whose lines the in-place fix
\* changed holds the corrected content after the run, and clang_format
\* reports the rewrite (the warning and the diff) even when the checker
\* emitted no error output, so the run reports failure with exit code 1.
C5_FixIsReported ==
    (pc = "done" /\ fix) =>
        \A i \in 1..Len(tasks) :
            RewrittenBy(i) =>
                /\ content[tasks[i].src] = tasks[i].wrote
                /\ Has(tasks[i].result, Warning)
                /\ Count(errors, tasks[i].result) >= 1
                /\ exitCode = 1

C5_Witness ==
    /\ pc = "done"
    /\ fix
    /\ Quiet
    /\ exitCode = 1
    /\ \E i \in 1..Len(tasks) : RewrittenBy(i) /\ tasks[i].had = Ugly

\* C6: when a banner is printed, exactly one clang-tidy invocation was
\* started for each discovered .cpp file and exactly one clang-format
\* invocation for each discovered .cpp and .hpp file, and every one of
\* them has finished, whatever the earlier invocations returned.
C6_AllInvocationsRun ==
    BannerPrinted =>
        LET cpp == Elems(collect_sources(tree, ".cpp", scanOrder))
            hpp == Elems(collect_sources(tree, ".hpp", scanOrder))
        IN  /\ \A p \in cpp : Cardinality(TasksOf("clang-tidy", p)) = 1
            /\ \A p \in cpp \cup hpp : Cardinality(TasksOf("clang-format", p)) = 1
            /\ Len(tasks) = 2 * Cardinality(cpp) + Cardinality(hpp)
            /\ \A i \in 1..Len(tasks) :
                  tasks[i].st = "done" /\ Printed(<<ProgressTag(tasks[i].checker)>> \o tasks[i].src)

\* The first clang-tidy invocation reported a problem and all five
\* invocations of a two-.cpp, one-.hpp tree ran.
C6_Witness ==
    /\ BannerPrinted
    /\ Len(tasks) = 5
    /\ tasks[1].checker = "clang-tidy"
    /\ tasks[1].result # << >>

\* C7: no exception raised inside one file's check (the checker cannot be
\* launched, the file cannot be decoded) aborts the run: the run never ends
\* without a banner.
C7_NoExceptionAbortsRun ==
    (\E i \in 1..Len(tasks) : tasks[i].raised) => pc # "crashed"

\* C8: no two invocations in progress target the same file; each checker is
\* given each file at most once, and every clang-tidy invocation has
\* finished before the first clang-format invocation is submitted.
C8_FileOwnership ==
    /\ \A i, j \in InProgress : i # j => tasks[i].src # tasks[j].src
    /\ \A i, j \in 1..Len(tasks) :
          (i # j /\ tasks[i].checker = tasks[j].checker)
              => tasks[i].src # tasks[j].src
    /\ Pool("clang-format") # {} =>
          \A i \in Pool("clang-tidy") : tasks[i].st = "done"

C8_Witness ==
    /\ Cardinality(InProgress) = 2
    /\ InProgress \subseteq Pool("clang-format")
    /\ \A i \in InProgress : TasksOf("clang-tidy", tasks[i].src) # {}

\* C9: the invocations in progress never outnumber the pool's workers;
\* further submitted tasks wait in the queue.
C9_PoolBound == Cardinality(InProgress) <= Processes

C9_Witness ==
    /\ Cardinality(InProgress) = Processes
    /\ \E i \in 1..Len(tasks) : tasks[i].st = "queued"

FormatDone(i) ==
    /\ tasks[i].checker = "clang-format"
    /\ tasks[i].st = "done"
    /\ ~tasks[i].raised

HasDiff(i) ==
    \E k \in 1..Len(tasks[i].result) :
        /\ tasks[i].result[k] = Warning
        /\ SubSeq(tasks[i].result, k + 1, Len(tasks[i].result))
              = context_diff(tasks[i].before, read_file(tasks[i].wrote).lines)
        /\ k < Len(tasks[i].result)

\* C10 as stated: clang_format's report is non-empty exactly when the
\* file's content after the invocation differs from its content before or
\* the checker emitted error output, and every non-empty report includes a
\* line-level diff of the two contents.
C10_Original ==
    \A i \in 1..Len(tasks) :
        FormatDone(i) =>
            /\ tasks[i].result # << >>
                  <=> (tasks[i].wrote # tasks[i].had \/ tasks[i].stream # << >>)
            /\ tasks[i].result # << >> => HasDiff(i)

\* C10, amended: the contents are compared as read_file reads them (lines
\* of decoded text, line endings normalised).  The report is non-empty
\* exactly when those lines differ or the checker emitted error output; it
\* carries the warning and the line-level diff exactly when the lines
\* differ, and is the checker's error output alone when they do not.
C10_FormatReport ==
    \A i \in 1..Len(tasks) :
        FormatDone(i) =>
            LET after == read_file(tasks[i].wrote).lines
            IN  /\ tasks[i].result # << >>
                      <=> (after # tasks[i].before \/ tasks[i].stream # << >>)
                /\ HasDiff(i) <=> after # tasks[i].before
                /\ after = tasks[i].before => tasks[i].result = tasks[i].stream
                /\ Has(tasks[i].result, "format: error") <=> tasks[i].stream # << >>

C10_Witness ==
    \E i \in 1..Len(tasks) :
        /\ FormatDone(i)
        /\ tasks[i].stream # << >>
        /\ tasks[i].had = Long
        /\ tasks[i].wrote = Clean
        /\ HasDiff(i)

====
